---- MODULE Spec2Model ----
(***************************************************************************)
(* GoFileServer (src/main.go): the four request handlers of the file      *)
(* server and the path functions they call, over a lexical model of the   *)
(* filesystem below the server's working directory.                        *)
(*                                                                         *)
(* A string is a sequence of one-character strings.  The character "u"     *)
(* stands for the directory name `uploads` and "d" for the URL segment     *)
(* `download`; "/" and "." are themselves and "a" is an ordinary name      *)
(* character.  File content is a sequence of blocks of BlockBytes bytes,   *)
(* each block carrying the tag of the upload it came from.                 *)
(***************************************************************************)
EXTENDS Integers, Sequences, FiniteSets, TLC

\* ------------------------------------------------------------------ bounds
MaxPathLen == 3
MaxNodes == 2

\* --------------------------------------------------------------- constants
uploadPath == <<".", "/", "u">>
downloadPrefix == <<"/", "d">>
BlockBytes == 32 * (2 ^ 20)
maxMemory == 32 * (2 ^ 20)

StatusOK == 200
StatusMovedPermanently == 301
StatusFound == 302
StatusBadRequest == 400
StatusNotFound == 404
StatusMethodNotAllowed == 405
StatusInternalServerError == 500

Chars == {"/", ".", "a"}
Tags == {"x", "y"}
Methods == {"GET", "POST"}

\* ----------------------------------------------------------------- strings
RECURSIVE StringsOfLen(_)
StringsOfLen(n) ==
  IF n = 0 THEN {<<>>}
  ELSE {Append(s, c) : s \in StringsOfLen(n - 1), c \in Chars}

StringsUpTo(n) == UNION {StringsOfLen(k) : k \in 0..n}

HasPrefix(s, prefix) ==
  /\ Len(s) >= Len(prefix)
  /\ SubSeq(s, 1, Len(prefix)) = prefix

TrimPrefix(s, prefix) ==
  IF HasPrefix(s, prefix) THEN SubSeq(s, Len(prefix) + 1, Len(s)) ELSE s

\* the segments of s between separators: Split("a//b") = <<"a", "", "b">>
RECURSIVE SplitFrom(_, _, _)
SplitFrom(s, i, cur) ==
  IF i > Len(s) THEN <<cur>>
  ELSE IF s[i] = "/" THEN <<cur>> \o SplitFrom(s, i + 1, <<>>)
  ELSE SplitFrom(s, i + 1, Append(cur, s[i]))

Split(s) == SplitFrom(s, 1, <<>>)

RECURSIVE JoinSegs(_)
JoinSegs(segs) ==
  IF segs = <<>> THEN <<>>
  ELSE IF Len(segs) = 1 THEN segs[1]
  ELSE segs[1] \o <<"/">> \o JoinSegs(Tail(segs))

DotDot == <<".", ".">>
Dot == <<".">>
Slash == <<"/">>

\* index of the last "/" in s, 0 when there is none
RECURSIVE LastSlash(_, _)
LastSlash(s, i) ==
  IF i = 0 THEN 0 ELSE IF s[i] = "/" THEN i ELSE LastSlash(s, i - 1)

\* ------------------------------------------------------- path/filepath
\* filepath.Clean, the loop over the input with its output buffer `out`,
\* read index r and backtrack limit dotdot (both 0-based as in the library)
RECURSIVE CleanLoop(_, _, _, _, _)
CleanLoop(path, rooted, r, out, dotdot) ==
  LET n == Len(path)
      at(i) == path[i + 1]
      sepOrEnd(i) == i = n \/ at(i) = "/"
  IN
  IF r >= n THEN out
  ELSE IF at(r) = "/" THEN CleanLoop(path, rooted, r + 1, out, dotdot)
  ELSE IF at(r) = "." /\ sepOrEnd(r + 1)
    THEN CleanLoop(path, rooted, r + 1, out, dotdot)
  ELSE IF at(r) = "." /\ at(r + 1) = "." /\ sepOrEnd(r + 2)
    THEN IF Len(out) > dotdot
           THEN LET cut == SubSeq(out, 1, Len(out) - 1)
                    k == LastSlash(cut, Len(cut))
                    w == IF k > dotdot THEN k - 1 ELSE dotdot
                IN CleanLoop(path, rooted, r + 2, SubSeq(out, 1, w), dotdot)
         ELSE IF ~rooted
           THEN LET o2 == (IF Len(out) > 0 THEN out \o Slash ELSE out) \o DotDot
                IN CleanLoop(path, rooted, r + 2, o2, Len(o2))
         ELSE CleanLoop(path, rooted, r + 2, out, dotdot)
  ELSE
    LET o1 == IF (rooted /\ Len(out) # 1) \/ (~rooted /\ Len(out) # 0)
              THEN out \o Slash ELSE out
        rest == SubSeq(path, r + 1, n)
        k == CHOOSE j \in 1..(Len(rest) + 1) :
               /\ (j = Len(rest) + 1 \/ rest[j] = "/")
               /\ \A i \in 1..(j - 1) : rest[i] # "/"
    IN CleanLoop(path, rooted, r + k - 1, o1 \o SubSeq(rest, 1, k - 1), dotdot)

Clean(path) ==
  IF path = <<>> THEN Dot
  ELSE LET rooted == path[1] = "/"
           out == IF rooted
                  THEN CleanLoop(path, TRUE, 1, Slash, 1)
                  ELSE CleanLoop(path, FALSE, 0, <<>>, 0)
       IN IF out = <<>> THEN Dot ELSE out

\* filepath.Join: the leading empty elements are dropped, the rest joined
\* with "/" and cleaned
RECURSIVE Join(_)
Join(elem) ==
  IF elem = <<>> THEN <<>>
  ELSE IF elem[1] = <<>> THEN Join(Tail(elem))
  ELSE Clean(JoinSegs(elem))

\* filepath.Base
RECURSIVE StripTrailingSlashes(_)
StripTrailingSlashes(s) ==
  IF s # <<>> /\ s[Len(s)] = "/"
  THEN StripTrailingSlashes(SubSeq(s, 1, Len(s) - 1)) ELSE s

Base(path) ==
  IF path = <<>> THEN Dot
  ELSE LET p == StripTrailingSlashes(path)
           k == LastSlash(p, Len(p))
       IN IF p = <<>> THEN Slash ELSE SubSeq(p, k + 1, Len(p))

\* filepath.Rel: [err |-> BOOLEAN, path |-> string]
RECURSIVE CommonLen(_, _)
CommonLen(b, t) ==
  IF b # <<>> /\ t # <<>> /\ b[1] = t[1]
  THEN 1 + CommonLen(Tail(b), Tail(t)) ELSE 0

\* Rel forgetting the `..` that lead out of the base
Rel_NoUp(basepath, targpath) ==
  LET bs == Split(Clean(basepath))
      ts == Split(Clean(targpath))
      c == CommonLen(bs, ts)
  IN [err |-> FALSE, path |-> JoinSegs(SubSeq(ts, c + 1, Len(ts)))]

\* Rel once the elements after the common ones are known
relRest(brest, trest) ==
  IF brest # <<>> /\ brest[1] = DotDot THEN [err |-> TRUE, path |-> <<>>]
  ELSE IF brest # <<>>
    THEN [err |-> FALSE,
          path |-> JoinSegs([i \in 1..Len(brest) |-> DotDot] \o trest)]
  ELSE [err |-> FALSE, path |-> JoinSegs(trest)]

relSegs(bs, ts, c) ==
  relRest(SubSeq(bs, c + 1, Len(bs)), SubSeq(ts, c + 1, Len(ts)))

\* Rel on the cleaned paths, base being base0 with "." made empty
relCleaned(base0, base, targ) ==
  LET baseSlashed == base # <<>> /\ base[1] = "/"
      targSlashed == targ # <<>> /\ targ[1] = "/"
  IN
  IF targ = base0 THEN [err |-> FALSE, path |-> Dot]
  ELSE IF baseSlashed # targSlashed THEN [err |-> TRUE, path |-> <<>>]
  ELSE relSegs(IF base = <<>> THEN <<>> ELSE Split(base),
               IF targ = <<>> THEN <<>> ELSE Split(targ),
               CommonLen(IF base = <<>> THEN <<>> ELSE Split(base),
                         IF targ = <<>> THEN <<>> ELSE Split(targ)))

relBase(base0, targ) ==
  relCleaned(base0, IF base0 = Dot THEN <<>> ELSE base0, targ)

Rel(basepath, targpath) == relBase(Clean(basepath), Clean(targpath))


\* lexicographic byte order of strings, as os.ReadDir sorts names
Ord(c) == CASE c = "&" -> 38 [] c = "." -> 46 [] c = "/" -> 47
            [] c = "a" -> 97 [] c = "d" -> 100 [] c = "i" -> 105
            [] c = "u" -> 117 [] OTHER -> 255

RECURSIVE StrLess(_, _)
StrLess(s, t) ==
  IF t = <<>> THEN FALSE
  ELSE IF s = <<>> THEN TRUE
  ELSE IF s[1] # t[1] THEN Ord(s[1]) < Ord(t[1])
  ELSE StrLess(Tail(s), Tail(t))

RECURSIVE SortNames(_)
SortNames(names) ==
  IF names = {} THEN <<>>
  ELSE LET m == CHOOSE x \in names : \A y \in names \ {x} : StrLess(x, y)
       IN <<m>> \o SortNames(names \ {m})

\* -------------------------------------------------------------- filesystem
\* D is the set of directories and F the function from regular files to
\* their content; both are keyed by cleaned paths relative to the working
\* directory.  The working directory and its ancestors always exist.
IsEnvDir(p) ==
  LET segs == Split(p)
  IN p = Dot \/ \A i \in 1..Len(segs) : segs[i] = DotDot

Parent(p) ==
  LET k == LastSlash(p, Len(p))
  IN IF k = 0 THEN Dot ELSE SubSeq(p, 1, k - 1)

BaseName(p) == SubSeq(p, LastSlash(p, Len(p)) + 1, Len(p))

\* the proper ancestors of p that a path walk crosses
Ancestors(p) == {SubSeq(p, 1, k - 1) : k \in {i \in 1..Len(p) : p[i] = "/"}}

IsDir(D, F, p) == IsEnvDir(p) \/ p \in D
IsFile(D, F, p) == p \in DOMAIN F

\* os.Stat: "dir", "file", or the error "ENOTDIR" / "ENOENT"
Stat(D, F, p) ==
  IF IsDir(D, F, p) THEN "dir"
  ELSE IF IsFile(D, F, p) THEN "file"
  ELSE IF \E q \in Ancestors(p) : IsFile(D, F, q) THEN "ENOTDIR"
  ELSE "ENOENT"

\* os.IsNotExist that never recognises the error
IsNotExist_Never(err) == FALSE

IsNotExist(err) == err = "ENOENT"

Children(D, F, p) == {n \in D \cup DOMAIN F : Parent(n) = p}

\* os.Mkdir in its place: an existing directory is an error
MkdirAll_Exclusive(D, F, p) ==
  IF Stat(D, F, p) # "ENOENT" THEN [err |-> TRUE, dirs |-> D]
  ELSE [err |-> FALSE,
        dirs |-> D \cup {p} \cup {q \in Ancestors(p) : ~IsDir(D, F, q)}]

\* os.MkdirAll: [err, dirs]
MkdirAll(D, F, p) ==
  LET st == Stat(D, F, p)
  IN IF st = "dir" THEN [err |-> FALSE, dirs |-> D]
     ELSE IF st = "file" \/ st = "ENOTDIR" THEN [err |-> TRUE, dirs |-> D]
     ELSE [err |-> FALSE,
           dirs |-> D \cup {p}
                      \cup {q \in Ancestors(p) : ~IsDir(D, F, q)}]

\* os.Create (O_RDWR|O_CREATE|O_TRUNC): [err, files]
Create(D, F, p) ==
  IF IsDir(D, F, p) \/ Stat(D, F, Parent(p)) # "dir"
  THEN [err |-> TRUE, files |-> F]
  ELSE [err |-> FALSE,
        files |-> [q \in DOMAIN F \cup {p} |-> IF q = p THEN <<>> ELSE F[q]]]

\* one write call on a descriptor at offset off (0-based); the bytes between
\* the end of the file and off read as zero
WriteAt(content, off, data) ==
  LET n == IF Len(content) > off + Len(data) THEN Len(content)
           ELSE off + Len(data)
  IN [i \in 1..n |->
        IF i > off /\ i <= off + Len(data) THEN data[i - off]
        ELSE IF i <= Len(content) THEN content[i]
        ELSE "0"]

\* io.Copy: the stream goes to the descriptor block by block, each write
\* call at the offset the one before it left
RECURSIVE CopyFrom(_, _, _)
CopyFrom(content, off, data) ==
  IF off >= Len(data) THEN content
  ELSE CopyFrom(WriteAt(content, off, <<data[off + 1]>>), off + 1, data)

Copy(F, p, data) == [F EXCEPT ![p] = CopyFrom(F[p], 0, data)]

Size(content) == Len(content) * BlockBytes
DirSize == 2 ^ 12

\* ------------------------------------------------------ requests, responses
NoFile == [present |-> FALSE, filename |-> <<>>, body |-> <<>>]

NoReq == [op |-> "none", method |-> "", ok |-> TRUE, path |-> <<>>,
          name |-> <<>>, file |-> NoFile]

NilSlice == [nil |-> TRUE, elems |-> <<>>]
EmptySlice == [nil |-> FALSE, elems |-> <<>>]
AppendSlice(s, e) == [nil |-> FALSE, elems |-> Append(s.elems, e)]

NoResp == [status |-> 0, json |-> FALSE, success |-> FALSE, error |-> "",
           message |-> "", target |-> <<>>, path |-> <<>>,
           files |-> NilSlice, body |-> <<>>, location |-> <<>>,
           listing |-> <<>>]

\* sendJSONError
sendJSONError(message, statusCode) ==
  [NoResp EXCEPT !.status = statusCode, !.json = TRUE, !.success = FALSE,
                 !.error = message]

\* http.Error: a plain-text body
httpError(message, statusCode) ==
  [NoResp EXCEPT !.status = statusCode, !.error = message]

Op(call, p) == [call |-> call, path |-> p]

Result(D, F, r, o) == [dirs |-> D, files |-> F, resp |-> r, ops |-> o]

\* the File records of a directory read, in os.ReadDir's order
RECURSIVE FileList(_, _, _, _, _)
FileList(D, F, dirPath, fullPath, names) ==
  IF names = <<>> THEN EmptySlice
  ELSE LET nm == names[Len(names)]
           node == IF fullPath = Dot THEN nm ELSE fullPath \o Slash \o nm
           isdir == node \in D
       IN AppendSlice(
            FileList(D, F, dirPath, fullPath, SubSeq(names, 1, Len(names) - 1)),
            [name |-> nm,
             path |-> Join(<<dirPath, nm>>),
             is_dir |-> isdir,
             size |-> IF isdir THEN DirSize ELSE Size(F[node])])


\* ---------------------------------------------------------------- handlers
\* Each handler maps the filesystem (D, F) and a request r to the
\* filesystem after it, its response and the filesystem calls it made.

\* the check without its test of the relative path
PathRejected_ErrOnly(fullPath) == Rel(uploadPath, fullPath).err

\* the path check of handleAPIFiles, handleAPIMkdir and handleDownload:
\* TRUE when the handler answers "Invalid path"
relClimbs(rel) == rel.err \/ HasPrefix(rel.path, DotDot)

PathRejected(fullPath) == relClimbs(Rel(uploadPath, fullPath))

\* the directory a request names, "/" when it names none
dirPathOf(p) == IF p = <<>> THEN Slash ELSE p

\* handleAPIFiles from its path check on
listDir(D, F, dirPath, fullPath) ==
  LET st == Stat(D, F, fullPath)
      listed == [NoResp EXCEPT !.status = StatusOK, !.json = TRUE,
                               !.success = TRUE, !.path = dirPath]
      names == SortNames({BaseName(n) : n \in Children(D, F, fullPath)})
  IN
  IF PathRejected(fullPath)
    THEN Result(D, F, sendJSONError("Invalid path", StatusBadRequest), <<>>)
  ELSE IF st # "dir"
    THEN IF IsNotExist(st)
           THEN Result(D, F, [listed EXCEPT !.files = EmptySlice],
                       <<Op("ReadDir", fullPath)>>)
           ELSE Result(D, F,
                       sendJSONError("Failed to read directory",
                                     StatusInternalServerError),
                       <<Op("ReadDir", fullPath)>>)
  ELSE Result(D, F,
              [listed EXCEPT !.files = FileList(D, F, dirPath, fullPath, names)],
              <<Op("ReadDir", fullPath)>>)

handleAPIFiles(D, F, r) ==
  listDir(D, F, dirPathOf(r.path),
          Join(<<uploadPath, Clean(dirPathOf(r.path))>>))

\* http.Request.ParseMultipartForm: maxMemory bounds what is held in memory,
\* the rest of the file parts goes to temporary files; only a body that is
\* not a well-formed multipart form is an error
ParseMultipartForm(r, maxMem) == [err |-> ~r.ok]

\* http.Request.FormFile("file"): the part's filename is passed through
\* filepath.Base; a part without a filename is not a file part
FormFile(r) ==
  IF ~r.file.present \/ r.file.filename = <<>>
  THEN [err |-> TRUE, Filename |-> <<>>, data |-> <<>>]
  ELSE [err |-> FALSE, Filename |-> Base(r.file.filename),
        data |-> r.file.body]

\* an error response of handleAPIUpload, with the directories made so far
uploadStop(D, F, rsp, o) ==
  [done |-> TRUE, dirs |-> D, files |-> F, resp |-> rsp, ops |-> o,
   fullPath |-> <<>>, data |-> <<>>, target |-> <<>>]

\* handleAPIUpload from r.FormFile to os.Create
uploadFile(D, F, dirPath, fullDirPath, ff, fullPath) ==
  LET cr == Create(D, F, fullPath)
      o1 == <<Op("MkdirAll", fullDirPath)>>
      o2 == Append(o1, Op("Create", fullPath))
  IN
  IF ff.err
    THEN uploadStop(D, F, sendJSONError("Failed to get file from form",
                                        StatusBadRequest), o1)
  ELSE IF cr.err
    THEN uploadStop(D, F, sendJSONError("Failed to create file on server",
                                        StatusInternalServerError), o2)
  ELSE [done |-> FALSE, dirs |-> D, files |-> cr.files,
        resp |-> NoResp, ops |-> o2, fullPath |-> fullPath,
        data |-> ff.data, target |-> Join(<<dirPath, ff.Filename>>)]

\* handleAPIUpload from its method check to os.MkdirAll
uploadDir(D, F, r, dirPath, fullDirPath, mk, ff) ==
  IF r.method # "POST"
    THEN uploadStop(D, F, sendJSONError("Method not allowed",
                                        StatusMethodNotAllowed), <<>>)
  ELSE IF ParseMultipartForm(r, maxMemory).err
    THEN uploadStop(D, F, sendJSONError("Failed to parse form",
                                        StatusBadRequest), <<>>)
  ELSE IF mk.err
    THEN uploadStop(D, F, sendJSONError("Failed to create directory",
                                        StatusInternalServerError),
                    <<Op("MkdirAll", fullDirPath)>>)
  ELSE uploadFile(mk.dirs, F, dirPath, fullDirPath, ff,
                  Join(<<fullDirPath, ff.Filename>>))

uploadInto(D, F, r, dirPath, fullDirPath) ==
  uploadDir(D, F, r, dirPath, fullDirPath, MkdirAll(D, F, fullDirPath),
            FormFile(r))

\* handleAPIUpload up to os.Create: either the error response (done) or the
\* file created empty, ready for io.Copy
uploadOpen(D, F, r) ==
  uploadInto(D, F, r, dirPathOf(r.path),
             Join(<<uploadPath, Clean(dirPathOf(r.path))>>))

\* the response after io.Copy returned without error
uploadDone(target) ==
  [NoResp EXCEPT !.status = StatusOK, !.json = TRUE, !.success = TRUE,
                 !.message = "File uploaded successfully to",
                 !.target = target]

uploadCopy(o) ==
  IF o.done THEN Result(o.dirs, o.files, o.resp, o.ops)
  ELSE Result(o.dirs, Copy(o.files, o.fullPath, o.data),
              uploadDone(o.target),
              Append(o.ops, Op("Write", o.fullPath)))

handleAPIUpload(D, F, r) == uploadCopy(uploadOpen(D, F, r))

\* handleAPIMkdir once the full path is joined
mkdirAt(D, F, r, fullPath, mk) ==
  IF r.method # "POST"
    THEN Result(D, F, sendJSONError("Method not allowed",
                                    StatusMethodNotAllowed), <<>>)
  ELSE IF ~r.ok
    THEN Result(D, F, sendJSONError("Invalid request", StatusBadRequest), <<>>)
  ELSE IF r.name = <<>>
    THEN Result(D, F, sendJSONError("Directory name is required",
                                    StatusBadRequest), <<>>)
  ELSE IF PathRejected(fullPath)
    THEN Result(D, F, sendJSONError("Invalid path", StatusBadRequest), <<>>)
  ELSE IF mk.err
    THEN Result(D, F, sendJSONError("Failed to create directory",
                                    StatusInternalServerError),
                <<Op("MkdirAll", fullPath)>>)
  ELSE Result(mk.dirs, F,
              [NoResp EXCEPT !.status = StatusOK, !.json = TRUE,
                             !.success = TRUE,
                             !.message = "Directory created successfully",
                             !.target = r.name],
              <<Op("MkdirAll", fullPath)>>)

mkdirJoined(D, F, r, fullPath) ==
  mkdirAt(D, F, r, fullPath, MkdirAll(D, F, fullPath))

handleAPIMkdir(D, F, r) ==
  mkdirJoined(D, F, r, Join(<<uploadPath, Clean(r.path), r.name>>))

\* http.ServeFile(w, r, name) for a name that os.Stat found
containsDotDot(v) ==
  LET segs == Split(v)
  IN \E i \in 1..Len(segs) : segs[i] = DotDot

\* "i" stands for the name index.html
indexPage == <<"/", "i">>

HasSuffix(s, suffix) ==
  /\ Len(s) >= Len(suffix)
  /\ SubSeq(s, Len(s) - Len(suffix) + 1, Len(s)) = suffix

\* the names http.ServeFile's directory page lists
dirList(D, F, name) == SortNames({BaseName(n) : n \in Children(D, F, name)})

\* serveFile for a directory reached through a URL that ends in "/": the
\* index.html of the directory takes its place when it can be opened
serveDir(D, F, name, index) ==
  IF IsFile(D, F, index)
    THEN [NoResp EXCEPT !.status = StatusOK, !.body = F[index],
                        !.target = BaseName(index)]
  ELSE IF IsDir(D, F, index)
    THEN [NoResp EXCEPT !.status = StatusOK, !.listing = dirList(D, F, index)]
  ELSE [NoResp EXCEPT !.status = StatusOK, !.listing = dirList(D, F, name)]

ServeFile(D, F, r, name) ==
  IF containsDotDot(r.path)
    THEN httpError("invalid URL path", StatusBadRequest)
  ELSE IF HasSuffix(r.path, indexPage)
    THEN [NoResp EXCEPT !.status = StatusMovedPermanently,
                        !.location = <<".", "/">>]
  ELSE IF IsDir(D, F, name)
    THEN IF r.path[Len(r.path)] # "/"
           THEN [NoResp EXCEPT !.status = StatusMovedPermanently,
                               !.location = Base(r.path) \o Slash]
           ELSE serveDir(D, F, name, name \o indexPage)
  ELSE [NoResp EXCEPT !.status = StatusOK, !.body = F[name],
                      !.target = BaseName(name)]

\* http.Redirect to "/?path=" + filePath: the url is rooted and its path is
\* clean, so it becomes the Location header as it is, the query unescaped.
\* "?" stands for ?path=
redirectURL(filePath) == <<"/", "?">> \o filePath

\* handleDownload once the full path is joined
downloadAt(D, F, r, filePath, fullPath, st) ==
  IF r.method # "GET"
    THEN Result(D, F, httpError("Method not allowed",
                                StatusMethodNotAllowed), <<>>)
  ELSE IF PathRejected(fullPath)
    THEN Result(D, F, httpError("Invalid path", StatusBadRequest), <<>>)
  ELSE IF st \notin {"dir", "file"}
    THEN Result(D, F, httpError("File not found", StatusNotFound),
                <<Op("Stat", fullPath)>>)
  ELSE IF st = "dir" /\ filePath # Slash
    THEN Result(D, F, [NoResp EXCEPT !.status = StatusFound,
                                     !.location = redirectURL(filePath)],
                <<Op("Stat", fullPath)>>)
  ELSE Result(D, F, ServeFile(D, F, r, fullPath),
              <<Op("Stat", fullPath), Op("ServeFile", fullPath)>>)

downloadJoined(D, F, r, filePath, fullPath) ==
  downloadAt(D, F, r, filePath, fullPath, Stat(D, F, fullPath))

downloadPath(D, F, r, filePath) ==
  downloadJoined(D, F, r, filePath, Join(<<uploadPath, Clean(filePath)>>))

handleDownload(D, F, r) ==
  downloadPath(D, F, r, dirPathOf(TrimPrefix(r.path, downloadPrefix)))


\* http.ServeMux in front of the route "/download/": a request whose URL path
\* is not clean is redirected to the clean one and the handler is not called
slashed(p) == IF p[1] # "/" THEN Slash \o p ELSE p

cleaned(q, np) == IF q[Len(q)] = "/" /\ np # Slash THEN np \o Slash ELSE np

cleanPath(p) ==
  IF p = <<>> THEN Slash ELSE cleaned(slashed(p), Clean(slashed(p)))

routed(D, F, r, clean) ==
  IF clean # r.path
  THEN Result(D, F, [NoResp EXCEPT !.status = StatusMovedPermanently,
                                   !.location = clean], <<>>)
  ELSE handleDownload(D, F, r)

routeDownload(D, F, r) == routed(D, F, r, cleanPath(r.path))

\* ------------------------------------------------------------ state machine
\* dirs, files: the filesystem.  req, resp, ops: the request being answered,
\* its response and the filesystem calls made for it.  conn: the uploads
\* that run concurrently, one per connection.
VARIABLES dirs, files, req, resp, ops, conn

vars == <<dirs, files, req, resp, ops, conn>>

\* the inputs of the requests.  A request with the wrong method, or with a
\* body that does not parse, is represented by that alone: the handler
\* returns before it reads anything else of it.
Paths == StringsUpTo(MaxPathLen)
Names == StringsUpTo(2)
FileNames == StringsOfLen(1)
\* an empty file, a file of one block and one of two, which is more than
\* maxMemory
Bodies == {<<>>, <<"x">>, <<"y", "y">>}
FileParts == {NoFile} \cup
             [present : {TRUE}, filename : FileNames, body : Bodies]

FilesRequests ==
  {[NoReq EXCEPT !.op = "files", !.method = m, !.path = p] :
     m \in Methods, p \in Paths}

UploadRequests ==
  {[NoReq EXCEPT !.op = "upload", !.method = m] : m \in Methods \ {"POST"}}
  \cup {[NoReq EXCEPT !.op = "upload", !.method = "POST", !.ok = FALSE]}
  \cup {[NoReq EXCEPT !.op = "upload", !.method = "POST", !.path = p,
                      !.file = f] : p \in Paths, f \in FileParts}

MkdirRequests ==
  {[NoReq EXCEPT !.op = "mkdir", !.method = m] : m \in Methods \ {"POST"}}
  \cup {[NoReq EXCEPT !.op = "mkdir", !.method = "POST", !.ok = FALSE]}
  \cup {[NoReq EXCEPT !.op = "mkdir", !.method = "POST", !.path = p,
                      !.name = n] : p \in Paths, n \in Names}

\* the URL paths the route "/download/" hands to handleDownload
DownloadRequests ==
  {[NoReq EXCEPT !.op = "download", !.method = m,
                 !.path = downloadPrefix \o Slash] : m \in Methods \ {"GET"}}
  \cup {[NoReq EXCEPT !.op = "download", !.method = "GET",
                      !.path = downloadPrefix \o Slash \o p] :
          p \in StringsUpTo(MaxPathLen)}

\* the part of the name space the model follows: at most MaxNodes nodes,
\* with names of FsNames, at most two levels below the storage root, the
\* working directory or its parent
FsNames == {<<"a">>, <<".", ".", "a">>}

\* the names outside Chars, `&` and index.html, are followed directly below
\* the storage root only
RootNames == {<<"&">>, <<"i">>}

InWindow(n) ==
  LET segs == Split(n)
      below == IF segs[1] \in {<<"u">>, DotDot} THEN Tail(segs) ELSE segs
  IN \/ /\ Len(below) <= 2
        /\ \A i \in 1..Len(below) : below[i] \in FsNames
     \/ /\ Len(segs) = 2 /\ segs[1] = <<"u">> /\ segs[2] \in RootNames

Bounded(res) ==
  /\ \A n \in res.dirs \cup DOMAIN res.files : n = Clean(uploadPath) \/ InWindow(n)
  /\ Cardinality(res.dirs \cup DOMAIN res.files) <= MaxNodes + 1

NoFiles == [n \in {} |-> <<>>]

\* the connections of the concurrent uploads and what each sends: the same
\* file name, a body of its own blocks
Conns == {1, 2}
IdleConn == [pc |-> "idle", fullPath |-> <<>>, data |-> <<>>, off |-> 0,
             target |-> <<>>, resp |-> NoResp]
ConnTag(c) == IF c = 1 THEN "x" ELSE "y"
ConnUploads(c) ==
  {[NoReq EXCEPT !.op = "upload", !.method = "POST", !.path = p,
                 !.file = [present |-> TRUE, filename |-> <<"a">>,
                           body |-> [i \in 1..n |-> ConnTag(c)]]] :
     p \in {<<"/">>, <<"a">>}, n \in 1..2}

\* main: os.MkdirAll(uploadPath), then the server waits for requests
Init ==
  /\ dirs = MkdirAll({}, NoFiles, Clean(uploadPath)).dirs
  /\ files = NoFiles
  /\ req = NoReq
  /\ resp = NoResp
  /\ ops = <<>>
  /\ conn = [c \in Conns |-> IdleConn]

Handle(r, res) ==
  /\ Bounded(res)
  /\ dirs' = res.dirs
  /\ files' = res.files
  /\ req' = r
  /\ resp' = res.resp
  /\ ops' = res.ops
  /\ UNCHANGED conn

ServeAPIFiles ==
  /\ req = NoReq
  /\ \E r \in FilesRequests : Handle(r, handleAPIFiles(dirs, files, r))

ServeAPIUpload ==
  /\ req = NoReq
  /\ \E r \in UploadRequests : Handle(r, handleAPIUpload(dirs, files, r))

ServeAPIMkdir ==
  /\ req = NoReq
  /\ \E r \in MkdirRequests : Handle(r, handleAPIMkdir(dirs, files, r))

ServeDownload ==
  /\ req = NoReq
  /\ \E r \in DownloadRequests : Handle(r, routeDownload(dirs, files, r))

\* the response is sent and the request's values are discarded
Respond ==
  /\ req # NoReq
  /\ req' = NoReq
  /\ resp' = NoResp
  /\ ops' = <<>>
  /\ UNCHANGED <<dirs, files, conn>>

Next ==
  \/ ServeAPIFiles
  \/ ServeAPIUpload
  \/ ServeAPIMkdir
  \/ ServeDownload
  \/ Respond

Spec == Init /\ [][Next]_vars

\* Concurrent uploads: net/http runs each request's handler in a goroutine of
\* its own, so the steps of two handleAPIUpload calls interleave.
Opened(c, o) ==
  /\ dirs' = o.dirs
  /\ files' = o.files
  /\ conn' = [conn EXCEPT ![c] =
       [pc |-> IF o.done THEN "done" ELSE "copy",
        fullPath |-> o.fullPath, data |-> o.data, off |-> 0,
        target |-> o.target, resp |-> o.resp]]

UploadOpen(c) ==
  /\ conn[c].pc = "idle"
  /\ \E r \in ConnUploads(c) : Opened(c, uploadOpen(dirs, files, r))
  /\ UNCHANGED <<req, resp, ops>>

\* one write call of io.Copy
UploadWrite(c) ==
  /\ conn[c].pc = "copy"
  /\ conn[c].off < Len(conn[c].data)
  /\ files' = [files EXCEPT ![conn[c].fullPath] =
                 WriteAt(@, conn[c].off, <<conn[c].data[conn[c].off + 1]>>)]
  /\ conn' = [conn EXCEPT ![c].off = @ + 1]
  /\ UNCHANGED <<dirs, req, resp, ops>>

\* io.Copy reads end of file and the handler answers
UploadFinish(c) ==
  /\ conn[c].pc = "copy"
  /\ conn[c].off = Len(conn[c].data)
  /\ conn' = [conn EXCEPT ![c].pc = "done",
                          ![c].resp = uploadDone(conn[c].target)]
  /\ UNCHANGED <<dirs, files, req, resp, ops>>

NextConc ==
  \/ \E c \in Conns : UploadOpen(c)
  \/ \E c \in Conns : UploadWrite(c)
  \/ \E c \in Conns : UploadFinish(c)

SpecConc == Init /\ [][NextConc]_vars

\* Requests with the names outside Chars: a directory `&`, a file index.html
NamedUploads ==
  {[NoReq EXCEPT !.op = "upload", !.method = "POST", !.path = p,
                 !.file = [present |-> TRUE, filename |-> n,
                           body |-> <<"x">>]] :
     p \in {<<"/">>, <<"a">>}, n \in {<<"a">>, <<"i">>}}

NamedMkdirs ==
  {[NoReq EXCEPT !.op = "mkdir", !.method = "POST", !.path = p, !.name = n] :
     p \in {<<"/">>, <<"a">>}, n \in {<<"a">>, <<"&">>}}

NamedDownloads ==
  {[NoReq EXCEPT !.op = "download", !.method = "GET",
                 !.path = downloadPrefix \o Slash \o p] :
     p \in StringsUpTo(MaxPathLen)
           \cup {<<"&">>, <<"i">>, <<"&", "/">>, <<"a", "/", "i">>}}

NamedUpload ==
  /\ req = NoReq
  /\ \E r \in NamedUploads : Handle(r, handleAPIUpload(dirs, files, r))

NamedMkdir ==
  /\ req = NoReq
  /\ \E r \in NamedMkdirs : Handle(r, handleAPIMkdir(dirs, files, r))

NamedDownload ==
  /\ req = NoReq
  /\ \E r \in NamedDownloads : Handle(r, routeDownload(dirs, files, r))

NextNamed ==
  \/ NamedUpload
  \/ NamedMkdir
  \/ NamedDownload
  \/ Respond

SpecNamed == Init /\ [][NextNamed]_vars

TypeOK == req.op \in {"none", "files", "upload", "mkdir", "download"}


\* ------------------------------------------------------------------ claims
\* What the claims speak of, stated on the segments of a path and not
\* through the functions of the handlers.
StorageRoot == <<"u">>

Confined(p) ==
  \/ p = StorageRoot
  \/ /\ Len(p) > Len(StorageRoot) + 1
     /\ SubSeq(p, 1, Len(StorageRoot) + 1) = StorageRoot \o <<"/">>

Rooted(p) == p # <<>> /\ p[1] = "/"

\* some `..` segment of the path is met at the logical root
RECURSIVE ClimbsFrom(_, _)
ClimbsFrom(segs, depth) ==
  IF segs = <<>> THEN FALSE
  ELSE IF segs[1] \in {<<>>, <<".">>} THEN ClimbsFrom(Tail(segs), depth)
  ELSE IF segs[1] = <<".", ".">>
    THEN depth = 0 \/ ClimbsFrom(Tail(segs), depth - 1)
  ELSE ClimbsFrom(Tail(segs), depth + 1)

Climbs(p) == ClimbsFrom(Split(p), 0)

\* a relative path that climbs leaves the storage root
Escapes(p) == ~Rooted(p) /\ Climbs(p)

\* the names left of a path once `.` and `..` are resolved, a `..` at the
\* logical root being dropped
RECURSIVE NormFrom(_, _)
NormFrom(segs, stack) ==
  IF segs = <<>> THEN stack
  ELSE IF segs[1] \in {<<>>, <<".">>} THEN NormFrom(Tail(segs), stack)
  ELSE IF segs[1] = <<".", ".">>
    THEN NormFrom(Tail(segs),
                  IF stack = <<>> THEN stack
                  ELSE SubSeq(stack, 1, Len(stack) - 1))
  ELSE NormFrom(Tail(segs), Append(stack, segs[1]))

Norm(p) == NormFrom(Split(p), <<>>)

\* the lexical join of the storage root and the normalized path
Resolved(p) ==
  IF Norm(p) = <<>> THEN StorageRoot
  ELSE StorageRoot \o <<"/">> \o JoinSegs(Norm(p))

OpsConfined == \A i \in 1..Len(ops) : Confined(ops[i].path)

InvalidPath == resp.status = StatusBadRequest /\ resp.error = "Invalid path"

\* the logical path a list, mkdir or download request names
Logical(r) ==
  CASE r.op = "files" -> r.path
    [] r.op = "mkdir" -> r.path \o <<"/">> \o r.name
    [] r.op = "download" -> SubSeq(r.path, Len(downloadPrefix) + 1, Len(r.path))
    [] OTHER -> r.path

\* the request got as far as the handler's path check
Checked(r) ==
  CASE r.op = "files" -> TRUE
    [] r.op = "mkdir" -> r.method = "POST" /\ r.ok /\ r.name # <<>>
    [] r.op = "download" -> r.method = "GET" /\ cleanPath(r.path) = r.path
    [] OTHER -> FALSE

\* C1: every upload creates its directory and writes its file inside the
\* storage root, and an upload whose path escapes the root is answered 400
\* "Invalid path" without any filesystem call.
C1_UploadConfined ==
  /\ \A n \in dirs \cup DOMAIN files : Confined(n)
  /\ req.op = "upload" =>
       /\ OpsConfined
       /\ (req.method = "POST" /\ req.ok /\ Escapes(req.path)) =>
            (InvalidPath /\ ops = <<>>)

\* C2: list, mkdir and download make their filesystem calls only on the
\* storage root or a descendant of it, and a request the path check rejects
\* is answered 400 without a filesystem call.
C2_CheckedConfined ==
  req.op \in {"files", "mkdir", "download"} =>
    /\ OpsConfined
    /\ resp.error = "Invalid path" =>
         (resp.status = StatusBadRequest /\ ops = <<>>)
    /\ (Checked(req) /\ Escapes(Logical(req))) => InvalidPath

C2_Witness ==
  /\ req.op = "mkdir"
  /\ req.name = <<".", ".">>
  /\ resp.status = StatusOK
  /\ ops # <<>>

AnsweredAs(other) ==
  /\ resp.status = other.resp.status
  /\ resp.files.nil = other.resp.files.nil
  /\ Len(resp.files.elems) = Len(other.resp.files.elems)
  /\ ops = other.ops

C4_WithinAccepted ==
  (req.op \in {"files", "mkdir", "download"} /\ Checked(req)
     /\ ~Climbs(Logical(req))) =>
    /\ resp.error # "Invalid path"
    /\ ops # <<>>
    /\ ops[1].path = Resolved(Logical(req))


\* C5: two concurrent uploads to the same target both succeed and leave the
\* file holding the whole content of one of them, never a mixture.
C5_LastWriterWins ==
  (/\ conn[1].pc = "done" /\ conn[2].pc = "done"
   /\ conn[1].fullPath = conn[2].fullPath /\ conn[1].fullPath # <<>>) =>
    /\ conn[1].resp.status = StatusOK
    /\ conn[2].resp.status = StatusOK
    /\ files[conn[1].fullPath] \in {conn[1].data, conn[2].data}

\* C6: an upload of more than MaxUploadSize bytes is answered 400 before a
\* byte is written, and no file under the storage root is larger than that.
MaxUploadSize == 32 * (2 ^ 20)

C6_SizeLimit ==
  /\ \A n \in DOMAIN files : Size(files[n]) <= MaxUploadSize
  /\ (req.op = "upload" /\ req.file.present
        /\ Size(req.file.body) > MaxUploadSize) =>
       /\ resp.status = StatusBadRequest
       /\ \A i \in 1..Len(ops) : ops[i].call # "Write"


\* a name of one segment that is neither `.` nor `..`
PlainName(f) ==
  /\ f # <<>> /\ f \notin {<<".">>, <<".", ".">>}
  /\ \A i \in 1..Len(f) : f[i] # "/"

\* a logical path in clean form, with or without the leading slash:
\* `/`, `/a`, `a`, `a/b`
CleanLogical(d) ==
  /\ ~Climbs(d)
  /\ \/ d = <<"/">> \o JoinSegs(Norm(d))
     \/ d = JoinSegs(Norm(d)) /\ d # <<>>

\* some regular file lies on the way to p
FileAbove(F, p) ==
  \E n \in DOMAIN F :
    Len(p) > Len(n) + 1 /\ SubSeq(p, 1, Len(n) + 1) = n \o <<"/">>

Exists(D, F, p) == p \in D \/ p \in DOMAIN F

ListRequest(d) == [NoReq EXCEPT !.op = "files", !.method = "GET", !.path = d]

DownloadRequest(d, f) ==
  [NoReq EXCEPT !.op = "download", !.method = "GET",
                !.path = downloadPrefix \o <<"/">>
                         \o (IF Norm(d) = <<>> THEN <<>>
                             ELSE JoinSegs(Norm(d)) \o <<"/">>) \o f]

\* the listing l is a success and has the regular file f of n bytes
ListsFile(l, f, n) ==
  /\ l.status = StatusOK
  /\ \E i \in 1..Len(l.files.elems) :
       /\ l.files.elems[i].name = f
       /\ ~l.files.elems[i].is_dir
       /\ l.files.elems[i].size = n

\* C7: an upload of n bytes named f to a logical directory d that does not
\* exist succeeds, creates the directories from the storage root down to d,
\* and the list of d that follows has an entry f, not a directory, of size n.
C7_UploadThenList ==
  [][(/\ req'.op = "upload" /\ req'.method = "POST" /\ req'.ok
      /\ req'.file.present /\ PlainName(req'.file.filename)
      /\ CleanLogical(req'.path)
      /\ ~Exists(dirs, files, Resolved(req'.path)))
     =>
     (/\ resp'.status = StatusOK /\ resp'.success
      /\ Resolved(req'.path) \in dirs'
      /\ \A k \in 1..Len(Resolved(req'.path)) :
           Resolved(req'.path)[k] = "/" =>
             SubSeq(Resolved(req'.path), 1, k - 1) \in dirs'
      /\ ListsFile(handleAPIFiles(dirs', files', ListRequest(req'.path)).resp,
                   req'.file.filename, Size(req'.file.body)))]_vars

Returns(d, body) == d.status = StatusOK /\ d.body = body

\* C8: after a successful upload to d/f, whatever was uploaded there before,
\* GET /download/d/f answers 200 with exactly the bytes of that upload.
C8_RoundTrip ==
  (/\ req.op = "upload" /\ resp.status = StatusOK
   /\ PlainName(req.file.filename) /\ CleanLogical(req.path)) =>
    Returns(routeDownload(dirs, files,
                          DownloadRequest(req.path, req.file.filename)).resp,
            req.file.body)

\* C9 as stated: the list of a path that passes the check and was never
\* created is 200 with success and an empty, non-null array, echoes the
\* path, and changes nothing in the filesystem.
ListedEmpty(r, rsp) ==
  /\ rsp.status = StatusOK /\ rsp.success
  /\ rsp.files = [nil |-> FALSE, elems |-> <<>>]
  /\ rsp.path = (IF r.path = <<>> THEN <<"/">> ELSE r.path)

SucceedsLeaving(again, D, F) ==
  /\ again.resp.status = StatusOK /\ again.resp.success
  /\ again.dirs = D /\ again.files = F

\* C10: a mkdir request that succeeded succeeds again when repeated at once,
\* and a valid mkdir request for a directory that exists, empty or not,
\* succeeds; in both cases the filesystem stays as it was.
C10_MkdirIdempotent ==
  [][(req'.op = "mkdir" /\ req'.method = "POST" /\ req'.ok
        /\ req'.name # <<>>) =>
       /\ resp'.success =>
            SucceedsLeaving(handleAPIMkdir(dirs', files', req'),
                            dirs', files')
       /\ (resp'.error # "Invalid path" /\ ops'[1].path \in dirs) =>
            /\ resp'.status = StatusOK /\ resp'.success
            /\ dirs' = dirs /\ files' = files]_vars

C10_Witness ==
  /\ req.op = "mkdir"
  /\ resp.success
  /\ \E n \in dirs \cup DOMAIN files :
       /\ Len(n) > Len(ops[1].path) + 1
       /\ SubSeq(n, 1, Len(ops[1].path) + 1) = ops[1].path \o <<"/">>
  /\ ops[1].path # StorageRoot

\* C12: a download of the root path, GET /download/, never answers with
\* content: no success status, no file bytes, no listing of the root.
C12_RootNoContent ==
  (req.op = "download" /\ req.method = "GET"
     /\ req.path = <<"/", "d", "/">>) =>
    /\ resp.status # StatusOK
    /\ resp.body = <<>>
    /\ resp.listing = <<>>

\* the method of the request is not the one its endpoint serves
WrongMethod(r) ==
  CASE r.op \in {"files", "download"} -> r.method # "GET"
    [] r.op \in {"upload", "mkdir"} -> r.method # "POST"
    [] OTHER -> FALSE

\* C13: every endpoint answers a request of the wrong method with 405 and
\* makes no filesystem call for it.
C13_WrongMethod405 ==
  WrongMethod(req) =>
    (resp.status = StatusMethodNotAllowed /\ ops = <<>>)

\* the names directly below the node t
ChildNames(t) ==
  {SubSeq(n, Len(t) + 2, Len(n)) :
     n \in {m \in dirs \cup DOMAIN files :
              /\ Len(m) > Len(t) + 1
              /\ SubSeq(m, 1, Len(t) + 1) = t \o <<"/">>
              /\ \A i \in (Len(t) + 2)..Len(m) : m[i] # "/"}}

\* the lexical join of the logical path p and the name nm
LogicalJoin(p, nm) ==
  (IF Rooted(p) THEN <<"/">> ELSE <<>>) \o JoinSegs(Append(Norm(p), nm))

\* the entries are exactly the children of t, each told as it is
ListsExactly(elems, p, t) ==
  /\ Len(elems) = Cardinality(ChildNames(t))
  /\ {elems[i].name : i \in 1..Len(elems)} = ChildNames(t)
  /\ \A i \in 1..Len(elems) :
       /\ elems[i].path = LogicalJoin(p, elems[i].name)
       /\ elems[i].is_dir = (t \o <<"/">> \o elems[i].name \in dirs)
       /\ ~elems[i].is_dir =>
            elems[i].size = Size(files[t \o <<"/">> \o elems[i].name])

\* C14: the list of a logical path whose directory exists succeeds and has
\* exactly one entry for each child the directory has now, with the child's
\* name, the logical path joined with that name, its kind and, for a file,
\* its size.
C14_ListingExact ==
  (req.op = "files" /\ ~Climbs(req.path)
     /\ Resolved(req.path) \in dirs) =>
    /\ resp.status = StatusOK /\ resp.success
    /\ ListsExactly(resp.files.elems,
                    IF req.path = <<>> THEN <<"/">> ELSE req.path,
                    Resolved(req.path))

\* C15: an upload or mkdir request answered with a 4xx status leaves the
\* directories and the files as they were before it.
C15_ClientErrorNoEffect ==
  [][(req'.op \in {"upload", "mkdir"}
        /\ resp'.status >= 400 /\ resp'.status < 500)
     => (dirs' = dirs /\ files' = files)]_vars

\* the value of the parameter `path` in the query of a redirect target
\* /?path=..., as a client reads it: it ends at the first `&`
RECURSIVE UpToAmp(_)
UpToAmp(q) ==
  IF q = <<>> \/ q[1] = "&" THEN <<>> ELSE <<q[1]>> \o UpToAmp(Tail(q))

QueryPath(loc) ==
  IF Len(loc) >= 2 /\ loc[1] = "/" /\ loc[2] = "?"
  THEN UpToAmp(SubSeq(loc, 3, Len(loc))) ELSE <<>>

\* C11: a GET /download/<p>, p not the root, that fails the path check is
\* answered 400; one that passes it is answered 404 when nothing exists at
\* p, 302 to /?path=<p> when p is a directory, and 200 with the bytes of
\* the file when p is a regular file.
C11_DownloadDispatch ==
  (req.op = "download" /\ Checked(req) /\ Logical(req) # <<"/">>) =>
    IF ops = <<>>
    THEN InvalidPath
    ELSE /\ resp.error # "Invalid path"
         /\ ~Exists(dirs, files, ops[1].path) =>
              resp.status = StatusNotFound
         /\ ops[1].path \in dirs =>
              /\ resp.status = StatusFound
              /\ QueryPath(resp.location) = Logical(req)
         /\ ops[1].path \in DOMAIN files =>
              /\ resp.status = StatusOK
              /\ resp.body = files[ops[1].path]

====
